---- MODULE Spec2Model ----
(***************************************************************************)
(* A model of search_puppeteer.js: one run of the scraper over one URL.    *)
(* Strings are sequences of one-character strings; the regular             *)
(* expressions of the script are matched by a backtracking matcher with    *)
(* the priorities of the JavaScript engine (greedy, leftmost).             *)
(***************************************************************************)
EXTENDS Integers, Sequences, FiniteSets, TLC

(***************************************************************************)
(* Character classes.                                                      *)
(***************************************************************************)
Digit == {"0","1","2","3","4","5","6","7","8","9"}

NonZeroDigit == Digit \ {"0"}

Upper == {"A","B","C","D","E","F","G","H","I","J","K","L","M",
          "N","O","P","Q","R","S","T","U","V","W","X","Y","Z"}

Lower == {"a","b","c","d","e","f","g","h","i","j","k","l","m",
          "n","o","p","q","r","s","t","u","v","w","x","y","z"}

Alpha == Upper \cup Lower

Alnum == Alpha \cup Digit

\* \w
WordChar == Alnum \cup {"_"}

\* \s (the characters String.prototype.trim strips are the same set)
WhiteSpace == {" ", "\t", "\n", "\r", "\f"}

\* [-.\s]
PhoneSep == {"-", "."} \cup WhiteSpace

(***************************************************************************)
(* Regular expressions as trees, and the backtracking matcher.             *)
(***************************************************************************)
Cls(S) == [t |-> "cls", s |-> S]

Chr(c) == [t |-> "cls", s |-> {c}]

\* x{lo,hi}, greedy; hi = -1 is "no upper limit"
Rep(x, lo, hi) == [t |-> "rep", x |-> x, lo |-> lo, hi |-> hi]

Opt(x) == Rep(x, 0, 1)

Star(x) == Rep(x, 0, -1)

Plus(x) == Rep(x, 1, -1)

Grp(xs) == [t |-> "seq", xs |-> xs]

WordBoundary == [t |-> "wb"]

IsWordAt(text, pos) == pos >= 1 /\ pos <= Len(text) /\ text[pos] \in WordChar

\* \b holds between position pos-1 and pos
IsWordBoundary(text, pos) == IsWordAt(text, pos - 1) # IsWordAt(text, pos)

Dec(n) == IF n > 0 THEN n - 1 ELSE n

\* The number of consecutive characters of text from pos that are in S,
\* at most cap of them (cap < 0: no limit).
RunLen(text, pos, S, cap) ==
  LET avail == Len(text) - pos + 1
      m == IF cap < 0 \/ cap > avail THEN avail ELSE cap
  IN CHOOSE k \in 0..m :
       /\ k = m \/ text[pos + k] \notin S
       /\ \A j \in 0..(k - 1) : text[pos + j] \in S

\* Match the nodes of stack, in order, from position pos of text: the
\* position after the match the engine finds first, or 0 when there is none.
\* A repetition is greedy: the longest count is tried first, then shorter
\* ones (TryRep for a repeated character class, unfolding for a group).
RECURSIVE MatchAt(_, _, _)
RECURSIVE TryRep(_, _, _, _, _)
TryRep(text, rest, pos, k, lo) ==
  IF k < lo THEN 0
  ELSE LET r == MatchAt(text, rest, pos + k)
       IN IF r # 0 THEN r ELSE TryRep(text, rest, pos, k - 1, lo)

MatchAt(text, stack, pos) ==
  IF Len(stack) = 0 THEN pos
  ELSE LET n == Head(stack)
           rest == Tail(stack)
       IN CASE n.t = "cls" ->
                 IF pos <= Len(text) /\ text[pos] \in n.s
                 THEN MatchAt(text, rest, pos + 1)
                 ELSE 0
            [] n.t = "wb" ->
                 IF IsWordBoundary(text, pos) THEN MatchAt(text, rest, pos) ELSE 0
            [] n.t = "seq" -> MatchAt(text, n.xs \o rest, pos)
            [] n.t = "rep" /\ n.x.t = "cls" ->
                 TryRep(text, rest, pos, RunLen(text, pos, n.x.s, n.hi), n.lo)
            [] n.t = "rep" /\ n.x.t # "cls" ->
                 LET more == IF n.hi = 0 THEN 0
                             ELSE MatchAt(text,
                                          <<n.x, Rep(n.x, Dec(n.lo), Dec(n.hi))>> \o rest,
                                          pos)
                 IN IF more # 0 THEN more
                    ELSE IF n.lo <= 0 THEN MatchAt(text, rest, pos)
                    ELSE 0

\* The start of the leftmost match at or after pos, or 0
NextMatch(text, pattern, pos) ==
  LET p == CHOOSE q \in pos..(Len(text) + 1) :
             /\ q = Len(text) + 1 \/ MatchAt(text, pattern, q) # 0
             /\ \A r \in pos..(q - 1) : MatchAt(text, pattern, r) = 0
  IN IF p = Len(text) + 1 THEN 0 ELSE p

\* text.match(pattern) with the g flag: every match, left to right, the
\* search resuming where the previous match ended ("|| []" included).
RECURSIVE MatchAllFrom(_, _, _)
MatchAllFrom(text, pattern, pos) ==
  LET p == NextMatch(text, pattern, pos)
      e == MatchAt(text, pattern, p)
  IN IF p = 0 THEN <<>>
     ELSE <<SubSeq(text, p, e - 1)>> \o MatchAllFrom(text, pattern, e)

MatchAll(text, pattern) == MatchAllFrom(text, pattern, 1)

\* text.match(pattern) without the g flag: the leftmost match as a
\* one-element sequence, or <<>> for null.
MatchFirst(text, pattern) ==
  LET p == NextMatch(text, pattern, 1)
  IN IF p = 0 THEN <<>>
     ELSE <<SubSeq(text, p, MatchAt(text, pattern, p) - 1)>>

\* text.replace(pattern, repl) with the g flag
RECURSIVE ReplaceAllFrom(_, _, _, _)
ReplaceAllFrom(text, pattern, repl, pos) ==
  IF pos > Len(text) THEN <<>>
  ELSE LET e == MatchAt(text, pattern, pos)
       IN IF e = 0 THEN <<text[pos]>> \o ReplaceAllFrom(text, pattern, repl, pos + 1)
          ELSE repl \o ReplaceAllFrom(text, pattern, repl, e)

ReplaceAll(text, pattern, repl) == ReplaceAllFrom(text, pattern, repl, 1)

(***************************************************************************)
(* String helpers of the JavaScript runtime.                               *)
(***************************************************************************)
RECURSIVE TrimStart(_)
TrimStart(s) ==
  IF Len(s) > 0 /\ Head(s) \in WhiteSpace THEN TrimStart(Tail(s)) ELSE s

RECURSIVE TrimEnd(_)
TrimEnd(s) ==
  IF Len(s) > 0 /\ s[Len(s)] \in WhiteSpace
  THEN TrimEnd(SubSeq(s, 1, Len(s) - 1))
  ELSE s

\* String.prototype.trim
Trim(s) == TrimEnd(TrimStart(s))

IsPrefixAt(s, sub, pos) ==
  /\ pos + Len(sub) - 1 <= Len(s)
  /\ SubSeq(s, pos, pos + Len(sub) - 1) = sub

\* s.replace(sub, repl) with a string pattern: the first occurrence only
RECURSIVE ReplaceFirstFrom(_, _, _, _)
ReplaceFirstFrom(s, sub, repl, pos) ==
  IF pos > Len(s) THEN s
  ELSE IF IsPrefixAt(s, sub, pos)
       THEN SubSeq(s, 1, pos - 1) \o repl \o SubSeq(s, pos + Len(sub), Len(s))
       ELSE ReplaceFirstFrom(s, sub, repl, pos + 1)

ReplaceFirst(s, sub, repl) == ReplaceFirstFrom(s, sub, repl, 1)

\* text.split(/\r?\n/): the pieces between the line breaks. A break is a
\* "\n", with the "\r" before it when there is one.
BreakAt(text, pos) == text[pos] = "\n"

PieceEnd(text, nl) ==
  IF nl > 1 /\ nl <= Len(text) /\ text[nl - 1] = "\r" THEN nl - 2 ELSE nl - 1

RECURSIVE SplitFrom(_, _)
SplitFrom(text, pos) ==
  LET nls == {p \in pos..Len(text) : BreakAt(text, p)}
      nl == IF nls = {} THEN Len(text) + 1
            ELSE CHOOSE p \in nls : \A q \in nls : p <= q
      end == IF nls = {} \/ PieceEnd(text, nl) < pos - 1 THEN nl - 1
             ELSE PieceEnd(text, nl)
  IN IF nls = {} THEN <<SubSeq(text, pos, Len(text))>>
     ELSE <<SubSeq(text, pos, end)>> \o SplitFrom(text, nl + 1)

SplitLines(text) == SplitFrom(text, 1)

\* a deduplication that keeps the last occurrence of each element
RECURSIVE UniqueLast(_)
UniqueLast(xs) ==
  IF Len(xs) = 0 THEN <<>>
  ELSE IF \E k \in 2..Len(xs) : xs[k] = xs[1] THEN UniqueLast(Tail(xs))
  ELSE <<xs[1]>> \o UniqueLast(Tail(xs))

\* [...new Set(xs)]: the elements of xs, each once, in first-insertion order
RECURSIVE UniqueFrom(_, _, _)
UniqueFrom(xs, k, acc) ==
  IF k > Len(xs) THEN acc
  ELSE UniqueFrom(xs, k + 1,
                  IF \E i \in 1..Len(acc) : acc[i] = xs[k] THEN acc
                  ELSE Append(acc, xs[k]))

Unique(xs) == UniqueFrom(xs, 1, <<>>)

\* xs.map(Op)
RECURSIVE MapSeq(_, _)
MapSeq(Op(_), xs) ==
  IF Len(xs) = 0 THEN <<>> ELSE <<Op(Head(xs))>> \o MapSeq(Op, Tail(xs))

(***************************************************************************)
(* The patterns of the script.                                             *)
(***************************************************************************)
\* /[a-zA-Z0-9._%+-]+@[a-zA-Z0-9.-]+\.[a-zA-Z]{2,7}/g
emailPattern ==
  << Plus(Cls(Alnum \cup {".", "_", "%", "+", "-"})),
     Chr("@"),
     Plus(Cls(Alnum \cup {".", "-"})),
     Chr("."),
     Rep(Cls(Alpha), 2, 7) >>

\* /\+?[1-9]\d{1,2}[-.\s]?\(?\d{3}\)?[-.\s]?\d{3}[-.\s]?\d{4}/g
phonePattern ==
  << Opt(Chr("+")),
     Cls(NonZeroDigit),
     Rep(Cls(Digit), 1, 2),
     Opt(Cls(PhoneSep)),
     Opt(Chr("(")),
     Rep(Cls(Digit), 3, 3),
     Opt(Chr(")")),
     Opt(Cls(PhoneSep)),
     Rep(Cls(Digit), 3, 3),
     Opt(Cls(PhoneSep)),
     Rep(Cls(Digit), 4, 4) >>

\* /\d{1,5}\s\w+(\s\w+)*,\s\w+(\s\w+)*,\s[A-Z]{2}\s\d{5}/g
addressPattern ==
  << Rep(Cls(Digit), 1, 5),
     Cls(WhiteSpace),
     Plus(Cls(WordChar)),
     Star(Grp(<<Cls(WhiteSpace), Plus(Cls(WordChar))>>)),
     Chr(","),
     Cls(WhiteSpace),
     Plus(Cls(WordChar)),
     Star(Grp(<<Cls(WhiteSpace), Plus(Cls(WordChar))>>)),
     Chr(","),
     Cls(WhiteSpace),
     Rep(Cls(Upper), 2, 2),
     Cls(WhiteSpace),
     Rep(Cls(Digit), 5, 5) >>

\* /\$?\d{1,3}(?:,\d{3})*(?:\.\d{2})?/g
donationPattern ==
  << Opt(Chr("$")),
     Rep(Cls(Digit), 1, 3),
     Star(Grp(<<Chr(","), Rep(Cls(Digit), 3, 3)>>)),
     Opt(Grp(<<Chr("."), Rep(Cls(Digit), 2, 2)>>)) >>

\* /\b([A-Z][a-z]+ [A-Z][a-z]+)\b/ : group 1 is the whole match
namePattern ==
  << WordBoundary,
     Cls(Upper), Plus(Cls(Lower)), Chr(" "), Cls(Upper), Plus(Cls(Lower)),
     WordBoundary >>

\* the two calls in the other order
trimThenReplace(phone) == ReplaceAll(Trim(phone), <<Plus(Cls(PhoneSep))>>, <<" ">>)

\* phone.replace(/[-.\s]+/g, ' ').trim()
cleanPhone(phone) == Trim(ReplaceAll(phone, <<Plus(Cls(PhoneSep))>>, <<" ">>))

(***************************************************************************)
(* The pages the runs are made on.                                         *)
(***************************************************************************)
nameJane == <<"J","a","n","e"," ","D","o","e">>

nameJohn == <<"J","o","h","n"," ","S","m","i","t","h">>

nameShort == <<"A","l"," ","B">>

mailA == <<"a","@","b",".","c","o","m">>

mailJohn == <<"j","o","h","n","@","x",".","c","o","m">>

mailExample == <<"j","o","h","n",".","s","m","i","t","h","@","e","x","a","m","p","l","e",".","c","o","m">>

mailAndPhone == <<"c","@","d",".","o","r","g"," ","1","2",".","5","5","5",".","1","2","3",".","4","5","6","7">>

phoneDash == <<"1","2"," ","5","5","5","-","1","2","3","-","4","5","6","7">>

phoneParen == <<"(","5","5","5",")"," ","1","2","3","-","4","5","6","7">>

donationLine == <<"D","o","n","a","t","i","o","n",":"," ","$","1",",","2","5","0",".","0","0">>

giftLine == <<"G","i","f","t"," ","$","2","5"," ","a","n","d"," ","$","2","5">>

addressLine == <<"1"," ","M","a","i","n"," ","S","t",","," ","S","p","r","i","n","g","f","i","e","l","d",","," ","I","L"," ","1","2","3","4","5">>

paddedName == <<" "," ","J","a","n","e"," ","D","o","e"," ","\r">>

hrefA == <<"m","a","i","l","t","o",":","a","@","b",".","c","o","m">>

hrefM == <<"m","a","i","l","t","o",":","m","@","n",".","n","e","t">>

pdfTextLong == nameJohn \o <<"\n">> \o mailA \o <<"\n">> \o phoneDash \o <<"\n">> \o mailA

pdfTextShort == <<"x","@","y",".","i","o">>

\* The lines of a page, joined by line breaks
RECURSIVE joinLines(_)
joinLines(ls) ==
  IF Len(ls) = 0 THEN <<>>
  ELSE IF Len(ls) = 1 THEN ls[1]
  ELSE ls[1] \o <<"\n">> \o joinLines(Tail(ls))

MaxLines == 4

MaxAnchors == 2

MaxPdfLinks == 3

SeqsUpTo(S, n) == UNION {[1..k -> S] : k \in 0..n}

\* Pages of contact lines: every sequence of 1..MaxLines of these lines
contactLines == {nameJane, nameJohn, mailAndPhone, phoneDash}

contactTexts == {joinLines(ls) : ls \in SeqsUpTo(contactLines, MaxLines) \ {<<>>}}

\* Pages with the other shapes of text, among them the examples of the
\* specification; they carry mailto anchors
exampleText == joinLines(<<nameJohn, mailExample, phoneParen, donationLine>>)

otherTexts ==
  { exampleText,
    joinLines(<<nameShort, mailJohn>>),
    joinLines(<<paddedName, <<>>, mailA, <<>>>>),
    joinLines(<<addressLine, addressLine, giftLine, mailA, phoneDash, mailAndPhone>>),
    <<"\n">> }

\* Pages with links to PDF files
pdfUrls == {"a.pdf", "b.pdf", "c.pdf"}

linkedTexts == {<<>>, joinLines(<<nameJane, mailA>>)}

pdfTexts == {pdfTextLong, pdfTextShort}

sites ==
  [innerText : contactTexts, mailtoHrefs : {<<>>}, pdfHrefs : {<<>>}]
  \cup [innerText : otherTexts, mailtoHrefs : SeqsUpTo({hrefA, hrefM}, MaxAnchors),
        pdfHrefs : {<<>>}]
  \cup [innerText : linkedTexts, mailtoHrefs : {<<hrefM>>},
        pdfHrefs : SeqsUpTo(pdfUrls, MaxPdfLinks)]

\* What downloadPDF and extractPDFText return for one link: downloadPDF
\* true or false; extractPDFText the text, '' when pdf-parse threw
pdfOutcomes ==
  {[downloaded |-> FALSE, text |-> <<>>]}
  \cup [downloaded : {TRUE}, text : pdfTexts \cup {<<>>}]

(***************************************************************************)
(* The matches of the texts that recur from run to run (the lines of the   *)
(* pages, the PDF texts) are computed once and kept: the values are those  *)
(* of MatchAll and MatchFirst, any other text is matched on the spot.      *)
(***************************************************************************)
recurringTexts ==
  {Trim(l) : l \in contactLines \cup {nameShort, mailA, mailJohn, mailExample,
                                      phoneParen, donationLine, giftLine,
                                      addressLine, paddedName}}
  \cup pdfTexts

RECURSIVE tableOf(_, _)
tableOf(Op(_), S) ==
  IF S = {} THEN <<>>
  ELSE LET t == CHOOSE t \in S : TRUE
       IN (t :> Op(t)) @@ tableOf(Op, S \ {t})

emailTable == tableOf(LAMBDA t : MatchAll(t, emailPattern), recurringTexts)

phoneTable == tableOf(LAMBDA t : MatchAll(t, phonePattern), recurringTexts)

addressTable == tableOf(LAMBDA t : MatchAll(t, addressPattern), recurringTexts)

donationTable == tableOf(LAMBDA t : MatchAll(t, donationPattern), recurringTexts)

nameTable == tableOf(LAMBDA t : MatchFirst(t, namePattern), recurringTexts)

\* text.match(emailPattern) || []
emailMatches(text) ==
  IF text \in recurringTexts THEN emailTable[text] ELSE MatchAll(text, emailPattern)

\* text.match(phonePattern) || []
phoneMatches(text) ==
  IF text \in recurringTexts THEN phoneTable[text] ELSE MatchAll(text, phonePattern)

\* text.match(addressPattern) || []
addressMatches(text) ==
  IF text \in recurringTexts THEN addressTable[text] ELSE MatchAll(text, addressPattern)

\* text.match(donationPattern) || []
donationMatches(text) ==
  IF text \in recurringTexts THEN donationTable[text] ELSE MatchAll(text, donationPattern)

\* line.match(namePattern): <<>> for null, else <<nameMatch[1]>>
nameMatchOf(line) ==
  IF line \in recurringTexts THEN nameTable[line] ELSE MatchFirst(line, namePattern)

(***************************************************************************)
(* The steps of the script that are pure functions of their operands.      *)
(***************************************************************************)
\* links.map(link => link.href.replace('mailto:', '').trim())
mailtoAddress(href) ==
  Trim(ReplaceFirst(href, <<"m","a","i","l","t","o",":">>, <<>>))

\* lines 71-75: the matches in the text, then the mailto addresses
emailsOf(text, hrefs) == emailMatches(text) \o MapSeq(mailtoAddress, hrefs)

\* lines 80-81
cleanedPhonesOf(text) == MapSeq(cleanPhone, phoneMatches(text))

\* a check that lets the empty text through
neverEmpty(text) == FALSE

\* !pageText
isEmptyText(text) == Len(text) = 0

\* lines 115-120: the "extracted" object of a PDF record
pdfExtracted(pdfText) ==
  [ emails    |-> emailMatches(pdfText),
    phones    |-> phoneMatches(pdfText),
    addresses |-> addressMatches(pdfText),
    donations |-> donationMatches(pdfText) ]

\* lines 109-123: pdfData after one link, given what downloadPDF returned
\* and the text extractPDFText returned ('' when it failed)
pdfDataAfter(records, url, downloaded, pdfText) ==
  IF downloaded /\ ~isEmptyText(pdfText)
  THEN Append(records, [url |-> url, text |-> pdfText,
                        extracted |-> pdfExtracted(pdfText)])
  ELSE records

\* a loop that a failed link ends
stopOnFailure(idx, n, downloaded, pdfText) ==
  IF downloaded /\ Len(pdfText) > 0 THEN idx + 1 ELSE n + 1

\* lines 106-127: the try/catch is inside the loop body and downloadPDF and
\* extractPDFText catch their own errors, so the loop goes on to the next
\* link whatever the two calls returned
nextPdfIdx(idx, n, downloaded, pdfText) == idx + 1

\* pageText.split(/\r?\n/).map(l => l.trim()).filter(Boolean)
linesOf(text) == SelectSeq(MapSeq(Trim, SplitLines(text)), LAMBDA l : Len(l) > 0)

\* lines 148-153 and 154-159: each match not yet in the used set is pushed
\* to the found list and added to the used set
RECURSIVE claimFrom(_, _, _, _)
claimFrom(matches, k, found, used) ==
  IF k > Len(matches) THEN [found |-> found, used |-> used]
  ELSE IF matches[k] \notin used
       THEN claimFrom(matches, k + 1, Append(found, matches[k]), used \cup {matches[k]})
       ELSE claimFrom(matches, k + 1, found, used)

\* a scan that forgets the used set
claimAll(matches, found, used) ==
  [found |-> found \o matches, used |-> used \cup {matches[k] : k \in 1..Len(matches)}]

claimNew(matches, found, used) == claimFrom(matches, 1, found, used)

\* Math.max(0, i - 2) and Math.min(lines.length - 1, i + 2), for indices
\* that start at 1
windowLo(idx) == IF idx - 2 < 1 THEN 1 ELSE idx - 2

\* a window of three lines after the name
windowHiWide(idx, n) == IF idx + 3 > n THEN n ELSE idx + 3

windowHi(idx, n) == IF idx + 2 > n THEN n ELSE idx + 2

\* line 146
lineEmails(l) == emailMatches(l)

\* line 147
linePhones(l) == MapSeq(cleanPhone, phoneMatches(l))

\* lines 144-160: the scan of the lines j..hi of the window
RECURSIVE scanWindow(_, _, _, _)
scanWindow(ls, j, hi, st) ==
  IF j > hi THEN st
  ELSE LET e == claimNew(lineEmails(ls[j]), st.emailsFound, st.usedEmails)
           p == claimNew(linePhones(ls[j]), st.phonesFound, st.usedPhones)
       IN scanWindow(ls, j + 1, hi,
                     [ emailsFound |-> e.found, usedEmails |-> e.used,
                       phonesFound |-> p.found, usedPhones |-> p.used ])

\* a guard that forgets the contacts
emitAnyName(name, emailsFound, phonesFound) == Len(name) > 4

\* line 162
emitGuard(name, emailsFound, phonesFound) ==
  (Len(emailsFound) > 0 \/ Len(phonesFound) > 0) /\ Len(name) > 4

\* a record whose Emails take the emails of the PDF texts in
RECURSIVE pdfEmails(_)
pdfEmails(pdfs) ==
  IF Len(pdfs) = 0 THEN <<>> ELSE pdfs[1].extracted.emails \o pdfEmails(Tail(pdfs))

resultRecordMerged(emails_, phones_, addresses_, donations_, links, pdfs, text, donors) ==
  [ Emails |-> emails_ \o pdfEmails(pdfs), Phones |-> phones_, Addresses |-> addresses_,
    Donations |-> donations_, PDFLinks |-> links, PDFData |-> pdfs,
    RawText |-> text, Donors |-> donors ]

\* lines 173-182
resultRecord(emails_, phones_, addresses_, donations_, links, pdfs, text, donors) ==
  [ Emails |-> emails_, Phones |-> phones_, Addresses |-> addresses_,
    Donations |-> donations_, PDFLinks |-> links, PDFData |-> pdfs,
    RawText |-> text, Donors |-> donors ]

(***************************************************************************)
(* The run.                                                                *)
(***************************************************************************)
VARIABLES
  site,             \* the page behind the URL: innerText, anchors
  pc,               \* the position of the run in the script
  pageAt,           \* where the browser page is: "blank", "target" or a PDF URL
  pageText,
  emails, cleanedPhones, addresses, donations,
  uniqueEmails, uniquePhones, uniqueAddresses, uniqueDonations,
  uniquePdfLinks,
  directory,        \* the output directory exists
  pdfIdx,           \* the position of the PDF loop in uniquePdfLinks
  pdfData,
  fetchLog,         \* per link attempted: the URL and what the two calls returned
  pdfFiles,         \* the URLs whose .pdf file has been written
  lines, i, donorProfiles, usedEmails, usedPhones,
  dataFile,         \* the content of extracted_data.json, <<>> before it is written
  stdout, stderr,
  browserOpen,
  phoneIn, phoneOut \* a string and its successive normalizations

pageVars == <<pageText, emails, cleanedPhones, addresses, donations, uniqueEmails, uniquePhones, uniqueAddresses, uniqueDonations>>

pdfVars == <<uniquePdfLinks, directory, pdfIdx, pdfData, fetchLog, pdfFiles>>

donorVars == <<lines, i, donorProfiles, usedEmails, usedPhones>>

outVars == <<dataFile, stdout, stderr, browserOpen>>

normVars == <<phoneIn, phoneOut>>

vars == <<site, pc, pageAt, pageVars, pdfVars, donorVars, outVars, normVars>>

Fresh ==
  /\ pc = "start"
  /\ pageAt = "blank"
  /\ pageText = <<>>
  /\ emails = <<>> /\ cleanedPhones = <<>> /\ addresses = <<>> /\ donations = <<>>
  /\ uniqueEmails = <<>> /\ uniquePhones = <<>>
  /\ uniqueAddresses = <<>> /\ uniqueDonations = <<>>
  /\ uniquePdfLinks = <<>>
  /\ directory = FALSE
  /\ pdfIdx = 1
  /\ pdfData = <<>>
  /\ fetchLog = <<>>
  /\ pdfFiles = {}
  /\ lines = <<>> /\ i = 1 /\ donorProfiles = <<>>
  /\ usedEmails = {} /\ usedPhones = {}
  /\ dataFile = <<>>
  /\ stdout = <<>> /\ stderr = <<>>
  /\ browserOpen = TRUE

Init ==
  /\ site \in sites
  /\ Fresh
  /\ phoneIn = <<>> /\ phoneOut = <<>>

\* what a PDF URL shows in the page: the viewer's DOM, with the text of the
\* document and no anchors
viewerDocument == [innerText |-> pdfTextShort, mailtoHrefs |-> <<>>, pdfHrefs |-> <<>>]

\* page.evaluate and page.$$eval (lines 64, 72, 95) read the document the
\* page object shows at the time of the call
document(at) == IF at = "target" THEN site ELSE viewerDocument

\* the download loop placed before the extraction of the entities
stepAfterLoopFirst(p) ==
  CASE p = "read" -> "links"
    [] p = "links" -> "pdf"
    [] p = "pdf" -> "extract"
    [] p = "extract" -> "donors"

\* the order of the statements of the try block, lines 64-131
stepAfter(p) ==
  CASE p = "read" -> "extract"
    [] p = "extract" -> "links"
    [] p = "links" -> "pdf"
    [] p = "pdf" -> "donors"

\* lines 60-61: the log line, then page.goto(url), which may throw
Navigate ==
  /\ pc = "start"
  /\ stdout' = Append(stdout, [kind |-> "text"])
  /\ \E ok \in BOOLEAN :
       IF ok THEN pageAt' = "target" /\ pc' = "read"
       ELSE pageAt' = pageAt /\ pc' = "catch"
  /\ UNCHANGED <<site, pageVars, pdfVars, donorVars, dataFile, stderr, browserOpen, normVars>>

\* lines 64-67
ReadPageText ==
  /\ pc = "read"
  /\ pageText' = document(pageAt).innerText
  /\ pc' = IF isEmptyText(pageText') THEN "catch" ELSE stepAfter("read")
  /\ UNCHANGED <<site, pageAt, emails, cleanedPhones, addresses, donations,
                 uniqueEmails, uniquePhones, uniqueAddresses, uniqueDonations,
                 pdfVars, donorVars, outVars, normVars>>

\* lines 69-92
ExtractEntities ==
  /\ pc = "extract"
  /\ emails' = emailsOf(pageText, document(pageAt).mailtoHrefs)
  /\ uniqueEmails' = Unique(emails')
  /\ cleanedPhones' = cleanedPhonesOf(pageText)
  /\ uniquePhones' = Unique(cleanedPhones')
  /\ addresses' = addressMatches(pageText)
  /\ uniqueAddresses' = Unique(addresses')
  /\ donations' = donationMatches(pageText)
  /\ uniqueDonations' = Unique(donations')
  /\ pc' = stepAfter("extract")
  /\ UNCHANGED <<site, pageAt, pageText, pdfVars, donorVars, outVars, normVars>>

\* lines 95-104
ReadPdfLinks ==
  /\ pc = "links"
  /\ uniquePdfLinks' = Unique(document(pageAt).pdfHrefs)
  /\ pdfData' = <<>>
  /\ directory' = TRUE
  /\ pdfIdx' = 1
  /\ pc' = stepAfter("links")
  /\ UNCHANGED <<site, pageAt, pageVars, fetchLog, pdfFiles, donorVars, outVars, normVars>>

\* lines 106-127, one iteration: downloadPDF navigates the page to the link
\* and writes the file, or fails; extractPDFText gives the text or ''
PdfStep ==
  /\ pc = "pdf"
  /\ pdfIdx <= Len(uniquePdfLinks)
  /\ \E o \in pdfOutcomes :
       LET pdfUrl == uniquePdfLinks[pdfIdx]
       IN /\ pageAt' \in (IF o.downloaded THEN {pdfUrl} ELSE {pageAt, pdfUrl})
          /\ pdfFiles' = IF o.downloaded THEN pdfFiles \cup {pdfUrl} ELSE pdfFiles
          /\ fetchLog' = Append(fetchLog, [url |-> pdfUrl, downloaded |-> o.downloaded,
                                           text |-> o.text])
          /\ pdfData' = pdfDataAfter(pdfData, pdfUrl, o.downloaded, o.text)
          /\ stderr' = IF o.downloaded THEN stderr
                       ELSE Append(stderr, "Failed to download PDF")
          /\ pdfIdx' = nextPdfIdx(pdfIdx, Len(uniquePdfLinks), o.downloaded, o.text)
  /\ UNCHANGED <<site, pc, pageVars, uniquePdfLinks, directory, donorVars,
                 dataFile, stdout, browserOpen, normVars>>

\* lines 131-135
DonorInit ==
  /\ pc = "pdf"
  /\ pdfIdx > Len(uniquePdfLinks)
  /\ lines' = linesOf(pageText)
  /\ donorProfiles' = <<>>
  /\ usedEmails' = {}
  /\ usedPhones' = {}
  /\ i' = 1
  /\ pc' = stepAfter("pdf")
  /\ UNCHANGED <<site, pageAt, pageVars, pdfVars, outVars, normVars>>

\* lines 136-170, one iteration of the outer loop
DonorStep ==
  /\ pc = "donors"
  /\ i <= Len(lines)
  /\ LET nameMatch == nameMatchOf(lines[i])
         st == scanWindow(lines, windowLo(i), windowHi(i, Len(lines)),
                          [ emailsFound |-> <<>>, usedEmails |-> usedEmails,
                            phonesFound |-> <<>>, usedPhones |-> usedPhones ])
     IN IF Len(nameMatch) = 0
        THEN UNCHANGED <<donorProfiles, usedEmails, usedPhones>>
        ELSE /\ usedEmails' = st.usedEmails
             /\ usedPhones' = st.usedPhones
             /\ donorProfiles' =
                  IF emitGuard(nameMatch[1], st.emailsFound, st.phonesFound)
                  THEN Append(donorProfiles, [ name |-> nameMatch[1],
                                               emails |-> st.emailsFound,
                                               phones |-> st.phonesFound ])
                  ELSE donorProfiles
  /\ i' = i + 1
  /\ UNCHANGED <<site, pc, pageAt, pageVars, pdfVars, lines, outVars, normVars>>

\* lines 173-187
WriteResult ==
  /\ pc = "donors"
  /\ i > Len(lines)
  /\ LET data == resultRecord(uniqueEmails, uniquePhones, uniqueAddresses,
                              uniqueDonations, uniquePdfLinks, pdfData, pageText,
                              donorProfiles)
     IN /\ dataFile' = <<data>>
        /\ stdout' = Append(stdout, [kind |-> "json", data |-> data])
  /\ pc' = "finally"
  /\ UNCHANGED <<site, pageAt, pageVars, pdfVars, donorVars, stderr, browserOpen, normVars>>

\* lines 188-189
Catch ==
  /\ pc = "catch"
  /\ stderr' = Append(stderr, "Error processing URL")
  /\ pc' = "finally"
  /\ UNCHANGED <<site, pageAt, pageVars, pdfVars, donorVars, dataFile, stdout,
                 browserOpen, normVars>>

\* lines 190-192
Finally ==
  /\ pc = "finally"
  /\ browserOpen' = FALSE
  /\ stderr' = Append(stderr, "Browser closed.")
  /\ pc' = "done"
  /\ UNCHANGED <<site, pageAt, pageVars, pdfVars, donorVars, dataFile, stdout, normVars>>

Next ==
  \/ Navigate
  \/ ReadPageText
  \/ ExtractEntities
  \/ ReadPdfLinks
  \/ PdfStep
  \/ DonorInit
  \/ DonorStep
  \/ WriteResult
  \/ Catch
  \/ Finally

Spec == Init /\ [][Next]_vars

(***************************************************************************)
(* The phone normalization on its own: a string, normalized, and the       *)
(* result normalized again.                                                *)
(***************************************************************************)
MaxPhoneLen == 4

phoneChars == {"5", "-", ".", " ", "\t"}

phoneStrings == SeqsUpTo(phoneChars, MaxPhoneLen)

InitNorm ==
  /\ site = [innerText |-> <<>>, mailtoHrefs |-> <<>>, pdfHrefs |-> <<>>]
  /\ Fresh
  /\ phoneIn \in phoneStrings
  /\ phoneOut = <<>>

Normalize ==
  /\ Len(phoneOut) < 2
  /\ phoneOut' = Append(phoneOut,
                        cleanPhone(IF Len(phoneOut) = 0 THEN phoneIn
                                   ELSE phoneOut[Len(phoneOut)]))
  /\ UNCHANGED <<site, pc, pageAt, pageVars, pdfVars, donorVars, outVars, phoneIn>>

NextNorm == Normalize

NormSpec == InitNorm /\ [][NextNorm]_vars

(***************************************************************************)
(* The properties.                                                         *)
(***************************************************************************)
Elems(xs) == {xs[k] : k \in 1..Len(xs)}

Written == Len(dataFile) = 1

\* The run has come to its end through the PDF and donor loops
Completed == pc = "done" /\ Written

\* C1. Donor exclusivity: no email string and no normalized phone string
\* stands in the lists of two profiles, nor twice in the list of one; of the
\* profiles under construction at every step, and of the Donors written.
Exclusive(donors) ==
  \A k1, k2 \in 1..Len(donors) :
    /\ \A a \in 1..Len(donors[k1].emails), b \in 1..Len(donors[k2].emails) :
         (k1 # k2 \/ a # b) => donors[k1].emails[a] # donors[k2].emails[b]
    /\ \A a \in 1..Len(donors[k1].phones), b \in 1..Len(donors[k2].phones) :
         (k1 # k2 \/ a # b) => donors[k1].phones[a] # donors[k2].phones[b]

C1_DonorExclusivity ==
  /\ Exclusive(donorProfiles)
  /\ Written => Exclusive(dataFile[1].Donors)

\* Two profiles were written, and a phone of the first also stands, once
\* normalized, on a line within two lines of the second profile's name line.
C1_Witness ==
  /\ Completed
  /\ Len(dataFile[1].Donors) = 2
  /\ \E i2 \in 1..Len(lines), j \in 1..Len(lines) :
       /\ nameMatchOf(lines[i2]) = <<dataFile[1].Donors[2].name>>
       /\ dataFile[1].Donors[1].name # dataFile[1].Donors[2].name
       /\ j >= i2 - 2 /\ j <= i2 + 2
       /\ Elems(linePhones(lines[j])) \cap Elems(dataFile[1].Donors[1].phones) # {}

\* C2. PDF isolation: the links are attempted one at a time in link order,
\* a failure never stops the later ones, PDFData holds one record per link
\* that was downloaded and gave a text (extractPDFText reports its failure
\* as the empty text), in link order, none for a failed link, and the run
\* writes its ResultRecord with these.
Fetched(entry) == entry.downloaded /\ Len(entry.text) > 0

FetchedRecords ==
  LET ok == SelectSeq(fetchLog, Fetched)
  IN [k \in 1..Len(ok) |-> [url |-> ok[k].url, text |-> ok[k].text]]

RecordsOf(pdfs) == [k \in 1..Len(pdfs) |-> [url |-> pdfs[k].url, text |-> pdfs[k].text]]

C2_PdfIsolation ==
  /\ pc = "pdf" =>
       /\ Len(fetchLog) = pdfIdx - 1
       /\ pdfIdx <= Len(uniquePdfLinks) + 1
       /\ \A k \in 1..Len(fetchLog) : fetchLog[k].url = uniquePdfLinks[k]
       /\ RecordsOf(pdfData) = FetchedRecords
  /\ pc \in {"donors", "finally", "done"} /\ directory =>
       /\ [k \in 1..Len(fetchLog) |-> fetchLog[k].url] = uniquePdfLinks
       /\ RecordsOf(pdfData) = FetchedRecords
  /\ pc = "done" /\ directory =>
       /\ Written
       /\ dataFile[1].PDFLinks = uniquePdfLinks
       /\ dataFile[1].PDFData = pdfData
       /\ dataFile[1].RawText = site.innerText
       /\ stdout[Len(stdout)] = [kind |-> "json", data |-> dataFile[1]]

\* Three links, the first of which failed and the two after it did not: two
\* records were written.
C2_Witness ==
  /\ Completed
  /\ Len(uniquePdfLinks) = 3
  /\ ~Fetched(fetchLog[1]) /\ Fetched(fetchLog[2]) /\ Fetched(fetchLog[3])
  /\ Len(dataFile[1].PDFData) = 2

\* C3. An empty page text ends the run at once: no PDF link is fetched, the
\* output directory and extracted_data.json are not written, no result is
\* printed, and the failure is reported.
C3_EmptyTextFailsFast ==
  site.innerText = <<>> =>
    /\ fetchLog = <<>> /\ pdfFiles = {} /\ pageAt \in {"blank", "target"}
    /\ ~directory
    /\ ~Written
    /\ \A k \in 1..Len(stdout) : stdout[k].kind # "json"
    /\ pc \notin {"extract", "links", "pdf", "donors"}
    /\ pc = "done" => \E k \in 1..Len(stderr) : stderr[k] = "Error processing URL"

\* The page was loaded, its text was empty, it has links to PDF files, and
\* the run is over.
C3_Witness ==
  /\ pc = "done"
  /\ pageAt = "target"
  /\ site.innerText = <<>>
  /\ Len(site.pdfHrefs) > 0

\* C4. Page-level deduplication: each of Emails, Phones, Addresses and
\* Donations holds no element twice, holds the values of its match sequence
\* (emails: the matches in the text, then the mailto addresses; phones: the
\* normalized matches) and no other, each at the rank of its first
\* occurrence in that sequence.
FirstAt(xs, x) == CHOOSE k \in 1..Len(xs) : xs[k] = x /\ \A j \in 1..(k - 1) : xs[j] # x

IsDedupOf(us, xs) ==
  /\ \A a, b \in 1..Len(us) : a # b => us[a] # us[b]
  /\ Elems(us) = Elems(xs)
  /\ \A a, b \in 1..Len(us) : a < b => FirstAt(xs, us[a]) < FirstAt(xs, us[b])

C4_PageDedup ==
  Completed =>
    /\ emails = MatchAll(pageText, emailPattern) \o MapSeq(mailtoAddress, site.mailtoHrefs)
    /\ IsDedupOf(dataFile[1].Emails, emails)
    /\ IsDedupOf(dataFile[1].Phones, cleanedPhones)
    /\ IsDedupOf(dataFile[1].Addresses, addresses)
    /\ IsDedupOf(dataFile[1].Donations, donations)

\* An email occurs, then another, then the first again (the last time as a
\* mailto address), and two phone matches are equal once normalized.
C4_Witness ==
  /\ Completed
  /\ \E a, b, c \in 1..Len(emails) :
       a < b /\ b < c /\ emails[a] = emails[c] /\ emails[a] # emails[b]
       /\ c > Len(emails) - Len(site.mailtoHrefs)
  /\ Len(cleanedPhones) > Len(dataFile[1].Phones)
  /\ Len(addresses) > Len(dataFile[1].Addresses)
\* C5. The PDF records follow the rules of the page: the extracted lists of
\* every PDF record are what the page-level extraction gives for the same
\* text (phones normalized, every list deduplicated in first-occurrence
\* order).
C5_PdfSameRules ==
  \A k \in 1..Len(pdfData) :
    LET r == pdfData[k]
    IN /\ r.extracted.emails = Unique(emailsOf(r.text, <<>>))
       /\ r.extracted.phones = Unique(cleanedPhonesOf(r.text))
       /\ r.extracted.addresses = Unique(addressMatches(r.text))
       /\ r.extracted.donations = Unique(donationMatches(r.text))

\* C6. The end-to-end example: the page of the four lines "John Smith",
\* "john.smith@example.com", "(555) 123-4567", "Donation: $1,250.00", with
\* no anchors, gives that email, the phone "555 123 4567", the donation
\* "$1,250.00" among the donations, and the one profile of John Smith with
\* that email and that phone.
examplePhone == <<"5","5","5"," ","1","2","3"," ","4","5","6","7">>

exampleDonation == <<"$","1",",","2","5","0",".","0","0">>

C6_EndToEndExample ==
  Completed /\ site = [innerText |-> exampleText, mailtoHrefs |-> <<>>, pdfHrefs |-> <<>>]
  => /\ dataFile[1].Emails = <<mailExample>>
     /\ dataFile[1].Phones = <<examplePhone>>
     /\ exampleDonation \in Elems(dataFile[1].Donations)
     /\ dataFile[1].Donors = << [ name |-> nameJohn, emails |-> <<mailExample>>,
                                  phones |-> <<examplePhone>> ] >>

\* C7. Name-length gate and retention: every profile, under construction
\* or written, has a name of more than 4 characters and an email or a
\* phone; the page "Al B" / "john@x.com" gives no profile.
Retained(donors) ==
  \A k \in 1..Len(donors) :
    /\ Len(donors[k].name) > 4
    /\ Len(donors[k].emails) > 0 \/ Len(donors[k].phones) > 0

C7_NameGate ==
  /\ Retained(donorProfiles)
  /\ Written => Retained(dataFile[1].Donors)
  /\ Completed /\ site.innerText = joinLines(<<nameShort, mailJohn>>)
       => dataFile[1].Donors = <<>>

\* The run over "Al B" / "john@x.com" is over: the email was found on the
\* page and no profile was written.
C7_Witness ==
  /\ Completed
  /\ site.innerText = joinLines(<<nameShort, mailJohn>>)
  /\ mailJohn \in Elems(dataFile[1].Emails)
  /\ lines = <<nameShort, mailJohn>>
  /\ dataFile[1].Donors = <<>>

\* C8. Window contents and first-name-wins: the profile of the name on line
\* k holds the emails and normalized phones of the lines j with
\* k-2 <= j <= k+2 (within the text) that no name line before k had in its
\* window, each once, in line order; one profile per name line that gets a
\* contact, in line order; lines "Jane Doe", "a@b.com" give Jane Doe a@b.com.
InWindow(k, j) == j >= k - 2 /\ j <= k + 2

NameLines(ls) == {k \in 1..Len(ls) : Len(nameMatchOf(ls[k])) > 0}

RECURSIVE Gather(_, _, _, _)
Gather(Op(_), ls, k, j) ==
  IF j > Len(ls) THEN <<>>
  ELSE (IF InWindow(k, j) THEN Op(ls[j]) ELSE <<>>) \o Gather(Op, ls, k, j + 1)

InWindows(Op(_), ls, ks) == UNION {Elems(Gather(Op, ls, k, 1)) : k \in ks}

Unclaimed(Op(_), ls, k) ==
  LET before == InWindows(Op, ls, {n \in NameLines(ls) : n < k})
  IN Unique(SelectSeq(Gather(Op, ls, k, 1), LAMBDA c : c \notin before))

ExpectedProfile(ls, k) ==
  [ name |-> nameMatchOf(ls[k])[1],
    emails |-> Unclaimed(lineEmails, ls, k),
    phones |-> Unclaimed(linePhones, ls, k) ]

RECURSIVE ExpectedDonors(_, _)
ExpectedDonors(ls, n) ==
  IF n = 0 THEN <<>>
  ELSE ExpectedDonors(ls, n - 1) \o
       (IF /\ n \in NameLines(ls)
           /\ Len(ExpectedProfile(ls, n).emails) + Len(ExpectedProfile(ls, n).phones) > 0
        THEN <<ExpectedProfile(ls, n)>>
        ELSE <<>>)

C8_WindowContents ==
  /\ pc = "donors" => donorProfiles = ExpectedDonors(lines, i - 1)
  /\ Completed =>
       /\ lines = linesOf(site.innerText)
       /\ dataFile[1].Donors = ExpectedDonors(lines, Len(lines))
       /\ lines = <<nameJane, mailA>> =>
            dataFile[1].Donors = <<[name |-> nameJane, emails |-> <<mailA>>, phones |-> <<>>]>>

\* Names on lines 1 and 3 of four: the phone of line 2 lies in both windows
\* and went to the first name; the email of line 4 lies outside the window
\* of line 1 and went to the second.
C8_Witness ==
  /\ Completed
  /\ Len(lines) = 4
  /\ Len(dataFile[1].Donors) = 2
  /\ nameMatchOf(lines[1]) = <<dataFile[1].Donors[1].name>>
  /\ nameMatchOf(lines[3]) = <<dataFile[1].Donors[2].name>>
  /\ Len(linePhones(lines[2])) > 0
  /\ Elems(linePhones(lines[2])) \subseteq Elems(dataFile[1].Donors[1].phones)
  /\ Len(lineEmails(lines[4])) > 0
  /\ Elems(lineEmails(lines[4])) \subseteq Elems(dataFile[1].Donors[2].emails)
  /\ Elems(lineEmails(lines[4])) \cap Elems(dataFile[1].Donors[1].emails) = {}

\* C9. Phone normalization is idempotent: normalizing the normalization of
\* a string gives it back.
C9_NormIdempotent == Len(phoneOut) = 2 => phoneOut[2] = phoneOut[1]

\* A string with separators inside and at an end was normalized twice.
C9_Witness ==
  /\ Len(phoneOut) = 2
  /\ phoneOut[1] # phoneIn
  /\ Len(phoneOut[1]) >= 3
  /\ Len(phoneIn) > Len(phoneOut[1])

\* C10. Separate buckets: whatever the PDF links and what they gave, the
\* page-level lists, the RawText and the Donors written are those of the
\* page alone (its text and its mailto anchors), the Donors those of the
\* lines of the page text.
C10_SeparateBuckets ==
  Completed =>
    LET d == dataFile[1]
        t == site.innerText
    IN /\ d.RawText = t
       /\ d.Emails = Unique(MatchAll(t, emailPattern) \o MapSeq(mailtoAddress, site.mailtoHrefs))
       /\ d.Phones = Unique(MapSeq(cleanPhone, MatchAll(t, phonePattern)))
       /\ d.Addresses = Unique(MatchAll(t, addressPattern))
       /\ d.Donations = Unique(MatchAll(t, donationPattern))
       /\ d.Donors = ExpectedDonors(linesOf(t), Len(linesOf(t)))

\* PDF records were written with an email that the page does not have and
\* with a name line of another name than the page's; neither is in the
\* page-level lists or the Donors.
C10_Witness ==
  /\ Completed
  /\ Len(dataFile[1].Donors) > 0
  /\ \E k \in 1..Len(dataFile[1].PDFData) :
       Elems(dataFile[1].PDFData[k].extracted.emails) \ Elems(dataFile[1].Emails) # {}
  /\ \E k \in 1..Len(dataFile[1].PDFData) :
       LET ls == linesOf(dataFile[1].PDFData[k].text)
       IN \E j \in 1..Len(ls) :
            /\ Len(nameMatchOf(ls[j])) > 0
            /\ \A n \in 1..Len(dataFile[1].Donors) :
                 <<dataFile[1].Donors[n].name>> # nameMatchOf(ls[j])

\* C11. Ordering on the shared browser page: whenever the run is about to
\* read the page (its text, its mailto anchors, its PDF anchors) the page
\* shows the requested URL and no PDF link has been attempted; once the page
\* was navigated to a PDF URL no such read is left; so the RawText, the
\* mailto addresses among the Emails and the PDFLinks written are those of
\* the requested page.
PageReadPending == pc \in {"read", "extract", "links"}

C11_ReadsBeforePdfNavigation ==
  /\ PageReadPending => pageAt = "target" /\ fetchLog = <<>>
  /\ pageAt \notin {"blank", "target"} => ~PageReadPending /\ fetchLog # <<>>
  /\ Written =>
       /\ dataFile[1].RawText = site.innerText
       /\ dataFile[1].PDFLinks = Unique(site.pdfHrefs)
       /\ Elems(MapSeq(mailtoAddress, site.mailtoHrefs)) \subseteq Elems(dataFile[1].Emails)

\* The page was navigated away to a PDF URL and the run has written a text,
\* a mailto address and PDF links that the viewer page does not have.
C11_Witness ==
  /\ Completed
  /\ pageAt \in Elems(site.pdfHrefs)
  /\ Len(dataFile[1].PDFLinks) >= 2
  /\ dataFile[1].RawText # viewerDocument.innerText
  /\ Len(site.mailtoHrefs) > 0
  /\ Elems(MapSeq(mailtoAddress, site.mailtoHrefs)) \subseteq Elems(dataFile[1].Emails)
====
